---- MODULE Spec2Model ----
(***************************************************************************)
(* Academic Source Platform.                                               *)
(*                                                                         *)
(* Two programs that share no state: the browser client (src/src/App.tsx), *)
(* which calls the providers itself through the dev proxy, and the Express *)
(* relay (src/unnamed/part_000).  A behaviour of Spec follows one of them   *)
(* (variable side).  The response parsers, pure functions of the reply     *)
(* text, are checked on their own under ParseSpec.                         *)
(*                                                                         *)
(* The form fields pasteText and pasteName (App.tsx:74-75) are read only   *)
(* by addText and its button: they are the form addText is given.  The     *)
(* strict-mode flag only picks the system prompt's wording and is left     *)
(* out.                                                                    *)
(*                                                                         *)
(* Strings.  User-typed text is a sequence of runs [c, n] (the character c *)
(* repeated n times), so that a document of 8001 characters is one run.    *)
(* Provider reply text is a sequence of lexical atoms: single characters,  *)
(* and the words "QUOTES_JSON:", "quotes", "id", ... taken whole.          *)
(***************************************************************************)
EXTENDS Integers, Sequences, FiniteSets, TLC

VARIABLES
    side,            \* which program this behaviour follows: "client" | "relay"
    now,             \* the reading Date.now() returns
    provider,        \* App.tsx:71
    apiKey,          \* App.tsx:72
    docs,            \* App.tsx:73
    prompt,          \* App.tsx:76
    answer,          \* App.tsx:77
    quotes,          \* App.tsx:78
    loading,         \* App.tsx:80
    error,           \* App.tsx:81
    preferredQuote,  \* App.tsx:82
    inflight,        \* provider calls awaited at App.tsx:122, oldest first
    corpus,          \* part_000:17
    relayRes,        \* the relay's last HTTP response
    step,            \* what the last handler did: outcome and outbound call
    clearedWhileLoading,
                     \* history: Clear all was clicked while a call was awaited
                     \* and Run Query has not been clicked since
    fullText,        \* ParseSpec: the reply text under test
    clientOut,       \* ParseSpec: result of the client's parser
    relayOut,        \* ParseSpec: result of the relay's parser
    againOut         \* ParseSpec: the client's parser applied to its own answer

clientVars == <<provider, apiKey, docs, prompt, answer, quotes, loading, error,
                preferredQuote, inflight>>
relayVars == <<corpus, relayRes>>
parseVars == <<fullText, clientOut, relayOut, againOut>>
vars == <<side, now, clientVars, relayVars, step, clearedWhileLoading, parseVars>>

----------------------------------------------------------------------------
(* Bounds of the model *)

MaxDocs == 2
MaxClock == 1
MaxQuotes == 2

(* Program constants *)

ClientCap == 8000
RelayCap == 15000

----------------------------------------------------------------------------
(* User-typed strings: sequences of runs *)

Rep(c, n) == IF n = 0 THEN << >> ELSE << [c |-> c, n |-> n] >>

Empty == << >>
Blank == Rep(" ", 1)

IsSpace(c) == c \in {" ", "\n"}

RECURSIVE TrimStart(_)
TrimStart(s) ==
    IF s = << >> THEN s
    ELSE IF IsSpace(Head(s).c) THEN TrimStart(Tail(s)) ELSE s

RECURSIVE TrimEnd(_)
TrimEnd(s) ==
    IF s = << >> THEN s
    ELSE IF IsSpace(s[Len(s)].c) THEN TrimEnd(SubSeq(s, 1, Len(s) - 1)) ELSE s

Trim(s) == TrimEnd(TrimStart(s))

RECURSIVE StrLen(_)
StrLen(s) == IF s = << >> THEN 0 ELSE Head(s).n + StrLen(Tail(s))

RECURSIVE Slice0(_, _)
Slice0(s, k) ==
    IF s = << >> \/ k <= 0 THEN << >>
    ELSE IF Head(s).n <= k
         THEN << Head(s) >> \o Slice0(Tail(s), k - Head(s).n)
         ELSE << [c |-> Head(s).c, n |-> k] >>

----------------------------------------------------------------------------
(* Provider reply text: sequences of lexical atoms *)

MARK == "QUOTES_JSON:"
DQ == "dq"

IsWsTok(t) == t \in {" ", "\n"}

RECURSIVE TrimTextStart(_)
TrimTextStart(s) ==
    IF s = << >> THEN s
    ELSE IF IsWsTok(Head(s)) THEN TrimTextStart(Tail(s)) ELSE s

RECURSIVE TrimTextEnd(_)
TrimTextEnd(s) ==
    IF s = << >> THEN s
    ELSE IF IsWsTok(s[Len(s)]) THEN TrimTextEnd(SubSeq(s, 1, Len(s) - 1)) ELSE s

TrimText(s) == TrimTextEnd(TrimTextStart(s))

MatchAt(s, i, pat) ==
    /\ i >= 1
    /\ i + Len(pat) - 1 <= Len(s)
    /\ SubSeq(s, i, i + Len(pat) - 1) = pat

(* Leftmost position >= from where pat occurs in s; 0 when it does not. *)
FirstMatch(s, pat, from) ==
    LET S == {i \in from..Len(s) : MatchAt(s, i, pat)}
    IN IF S = {} THEN 0 ELSE CHOOSE i \in S : \A j \in S : i <= j

----------------------------------------------------------------------------
(* JSON.parse on atoms.  A result carries the value's kind, its canonical  *)
(* text (whitespace dropped), the canonical texts of an array's elements,  *)
(* and, for an object, what its member `key` holds (the last one wins).    *)

NumToks == {"0", "1"}

Fail == [ok |-> FALSE, pos |-> 0, kind |-> "", canon |-> << >>, items |-> << >>,
         qkind |-> "none", qcanon |-> << >>, qitems |-> << >>]

Val(pos, kind, canon, items, qkind, qcanon, qitems) ==
    [ok |-> TRUE, pos |-> pos, kind |-> kind, canon |-> canon, items |-> items,
     qkind |-> qkind, qcanon |-> qcanon, qitems |-> qitems]

RECURSIVE SkipWs(_, _)
SkipWs(s, i) == IF i <= Len(s) /\ IsWsTok(s[i]) THEN SkipWs(s, i + 1) ELSE i

(* Index of the double quote closing a string whose content starts at i. *)
RECURSIVE StrEnd(_, _)
StrEnd(s, i) ==
    IF i > Len(s) \/ s[i] = "\n" THEN 0
    ELSE IF s[i] = DQ THEN i ELSE StrEnd(s, i + 1)

RECURSIVE JoinComma(_)
JoinComma(ss) ==
    IF ss = << >> THEN << >>
    ELSE IF Len(ss) = 1 THEN ss[1]
    ELSE ss[1] \o << "," >> \o JoinComma(Tail(ss))

RECURSIVE ParseValue(_, _, _), ParseElems(_, _, _, _), ParseMembers(_, _, _, _, _)
ParseValue(s, i, key) ==
    IF i > Len(s) THEN Fail
    ELSE IF s[i] = DQ THEN
        LET e == StrEnd(s, i + 1)
        IN IF e = 0 THEN Fail
           ELSE Val(e + 1, "str", SubSeq(s, i, e), << >>, "none", << >>, << >>)
    ELSE IF s[i] \in NumToks THEN
        Val(i + 1, "num", << s[i] >>, << >>, "none", << >>, << >>)
    ELSE IF s[i] = "[" THEN
        LET j == SkipWs(s, i + 1)
        IN IF j <= Len(s) /\ s[j] = "]"
           THEN Val(j + 1, "arr", << "[", "]" >>, << >>, "none", << >>, << >>)
           ELSE ParseElems(s, j, key, << >>)
    ELSE IF s[i] = "{" THEN
        LET j == SkipWs(s, i + 1)
        IN IF j <= Len(s) /\ s[j] = "}"
           THEN Val(j + 1, "obj", << "{", "}" >>, << >>, "none", << >>, << >>)
           ELSE ParseMembers(s, j, key, << >>,
                             [k |-> "none", c |-> << >>, i |-> << >>])
    ELSE Fail

ParseElems(s, j, key, acc) ==
    LET v == ParseValue(s, j, key)
        k == SkipWs(s, v.pos)
        all == Append(acc, v.canon)
    IN IF ~v.ok \/ k > Len(s) THEN Fail
       ELSE IF s[k] = "," THEN ParseElems(s, SkipWs(s, k + 1), key, all)
       ELSE IF s[k] = "]"
            THEN Val(k + 1, "arr", << "[" >> \o JoinComma(all) \o << "]" >>, all,
                     "none", << >>, << >>)
            ELSE Fail

ParseMembers(s, j, key, acc, q) ==
    IF j > Len(s) \/ s[j] # DQ THEN Fail
    ELSE
        LET e == StrEnd(s, j + 1)
            name == SubSeq(s, j, e)
            c == SkipWs(s, e + 1)
            v == ParseValue(s, SkipWs(s, c + 1), key)
            k == SkipWs(s, v.pos)
            all == Append(acc, name \o << ":" >> \o v.canon)
            q2 == IF name = << DQ, key, DQ >>
                  THEN [k |-> v.kind, c |-> v.canon, i |-> v.items] ELSE q
        IN IF e = 0 \/ c > Len(s) THEN Fail
           ELSE IF s[c] # ":" THEN Fail
           ELSE IF ~v.ok \/ k > Len(s) THEN Fail
           ELSE IF s[k] = "," THEN ParseMembers(s, SkipWs(s, k + 1), key, all, q2)
           ELSE IF s[k] = "}"
                THEN Val(k + 1, "obj", << "{" >> \o JoinComma(all) \o << "}" >>,
                         << >>, q2.k, q2.c, q2.i)
                ELSE Fail

(* JSON.parse(s), remembering member `key` of a top-level object *)
JSONparse(s, key) ==
    LET v == ParseValue(s, SkipWs(s, 1), key)
    IN IF v.ok /\ SkipWs(s, v.pos) = Len(s) + 1 THEN v ELSE Fail

(* JSON.parse(raw).quotes || []  (raw starts with an object's brace) *)
QuotesOf(v) == IF v.ok /\ v.qkind = "arr" THEN v.qitems ELSE << >>

(* q.id of a decoded quote candidate; <<"undefined">> when it has none *)
QuoteId(q) ==
    LET v == JSONparse(q, "id")
    IN IF v.ok /\ v.kind = "obj" /\ v.qkind = "str"
       THEN SubSeq(v.qcanon, 2, Len(v.qcanon) - 1)
       ELSE << "undefined" >>

----------------------------------------------------------------------------
(* The two response parsers *)

HeadPat == << MARK, "{", DQ, "quotes", DQ, ":", "[" >>
ClosePat == << "]", "}" >>

(* App.tsx:124-131 *)
ClientQuotesOf(text) ==
    LET m == FirstMatch(text, HeadPat, 1)
        group == SubSeq(text, m + 1, Len(text))
        c == FirstMatch(group, ClosePat, 1)
        raw == IF c = 0 THEN group ELSE SubSeq(group, 1, c + 1)
    IN IF m = 0 THEN << >> ELSE QuotesOf(JSONparse(raw, "quotes"))

ClientAnswerCutAtObject(text) ==
    LET m == FirstMatch(text, << MARK, "{" >>, 1)
        k == IF m = 0 THEN 0 ELSE FirstMatch(text, << "}" >>, m + 2)
    IN TrimText(IF m = 0 \/ k = 0 THEN text
                ELSE SubSeq(text, 1, m - 1) \o SubSeq(text, k + 1, Len(text)))

(* App.tsx:132 *)
ClientAnswerOf(text) ==
    LET m == FirstMatch(text, << MARK >>, 1)
    IN TrimText(IF m = 0 THEN text ELSE SubSeq(text, 1, m - 1))

ClientParse(text) ==
    [answer |-> ClientAnswerOf(text), quotes |-> ClientQuotesOf(text)]

(* part_000:79-83 *)
RelayQuotesOf(text) ==
    LET m == FirstMatch(text, HeadPat, 1)
        c == IF m = 0 THEN 0 ELSE FirstMatch(text, ClosePat, m + Len(HeadPat))
    IN IF m = 0 \/ c = 0 THEN << >>
       ELSE QuotesOf(JSONparse(SubSeq(text, m + 1, c + 1), "quotes"))

(* part_000:84 *)
RelayAnswerOf(text) ==
    LET m == FirstMatch(text, << MARK, "{" >>, 1)
        k == IF m = 0 THEN 0 ELSE FirstMatch(text, << "}" >>, m + 2)
    IN TrimText(IF m = 0 \/ k = 0 THEN text
                ELSE SubSeq(text, 1, m - 1) \o SubSeq(text, k + 1, Len(text)))

RelayParse(text) ==
    [answer |-> RelayAnswerOf(text), quotes |-> RelayQuotesOf(text)]

----------------------------------------------------------------------------
(* Reply texts *)

Obj(id) == << "{", DQ, "id", DQ, ":", DQ, id, DQ, "}" >>
Trailer(elems) == << MARK, "{", DQ, "quotes", DQ, ":", "[" >>
                      \o JoinComma(elems) \o << "]", "}" >>

ReplyPlain == << "Insufficient", " ", "evidence." >>
ReplyQuoted == << "[1]", " ", "text", "\n" >> \o Trailer(<< Obj("q1"), Obj("q2") >>)

(* What the providers answer in a session *)
Replies == {ReplyPlain, ReplyQuoted}

----------------------------------------------------------------------------
(* Provider Adapter: callAI, App.tsx:21-68 *)

Providers == {"openai", "claude", "gemini"}

Endpoint(p) ==
    CASE p = "openai" -> "/openai/v1/chat/completions"
      [] p = "claude" -> "/claude/v1/messages"
      [] p = "gemini" -> "/gemini/v1beta/models/gemini-1.5-pro:generateContent"
      [] OTHER -> ""

CredentialIn(p) ==
    CASE p = "openai" -> "Authorization: Bearer"
      [] p = "claude" -> "x-api-key"
      [] p = "gemini" -> "?key="
      [] OTHER -> ""

ProviderFallback(p) ==
    CASE p = "openai" -> "OpenAI error"
      [] p = "claude" -> "Claude error"
      [] p = "gemini" -> "Gemini error"
      [] OTHER -> ""

(* What a fetch can come back with: reach = the promise resolved; json =   *)
(* the body is JSON; ok = res.ok; errmsg = data.error.message ("" when     *)
(* absent); path = how far the reply extraction path can be followed.      *)
Resp(reach, json, ok, errmsg, path, text) ==
    [reach |-> reach, json |-> json, ok |-> ok, errmsg |-> errmsg,
     path |-> path, text |-> text]

FailedResponses ==
    { Resp(FALSE, FALSE, FALSE, "", "none", << >>),
      Resp(TRUE, FALSE, FALSE, "", "none", << >>),
      Resp(TRUE, TRUE, FALSE, "Incorrect API key provided", "none", << >>),
      Resp(TRUE, TRUE, FALSE, "", "none", << >>),
      Resp(TRUE, TRUE, TRUE, "", "none", << >>) }

Responses ==
    FailedResponses
        \cup { Resp(TRUE, TRUE, TRUE, "", "leaf", << >>) }
        \cup { Resp(TRUE, TRUE, TRUE, "", "full", t) : t \in Replies }

Threw(msg) == [threw |-> TRUE, msg |-> msg, text |-> << >>]
Returned(text) == [threw |-> FALSE, msg |-> "", text |-> text]

ErrorMessage(p, r) == IF r.errmsg # "" THEN r.errmsg ELSE ProviderFallback(p)

callAI(p, r) ==
    IF p \notin Providers THEN Threw("Unknown provider")
    ELSE IF ~r.reach THEN Threw("Failed to fetch")
    ELSE IF ~r.json THEN Threw("Unexpected token in JSON")
    ELSE IF ~r.ok THEN Threw(ErrorMessage(p, r))
    ELSE IF r.path = "none" THEN Threw("Cannot read properties of undefined")
    ELSE IF r.path = "leaf" THEN Returned(<< >>)
    ELSE Returned(r.text)

----------------------------------------------------------------------------
(* What the user can type *)

PromptInputs == {Empty, Blank, Rep("q", 1)}
KeyInputs == {Empty, Blank, Rep("k", 1)}

PaddedName == Rep(" ", 1) \o Rep("A", 1) \o Rep(" ", 1)
DefaultName == Rep("Document", 1)

Form(name, text) == [name |-> name, text |-> text]

(* The name and text fields as filled in when Add is clicked *)
AddForms ==
    { Form(PaddedName, Rep("a", ClientCap)),
      Form(Empty, Rep("b", ClientCap + 1)),
      Form(Empty, Blank),
      Form(PaddedName, Empty) }

(* Bodies of POST /api/text *)
RelayTextBodies ==
    { Form(PaddedName, Rep("a", RelayCap)),
      Form(Empty, Rep("b", RelayCap + 1)),
      Form(Empty, Blank),
      Form(PaddedName, Empty) }

----------------------------------------------------------------------------
(* The step record: what the last handler did *)

NoStep == [kind |-> "none", op |-> "", call |-> << >>, got |-> << >>]
Rejected(op) == [kind |-> "rejected", op |-> op, call |-> << >>, got |-> << >>]
Settled(kind, r) == [kind |-> kind, op |-> "query", call |-> << >>, got |-> << r >>]
Called(op, to, credIn, cred, context, question) ==
    [kind |-> "call", op |-> op,
     call |-> << [to |-> to, credIn |-> credIn, cred |-> cred,
                  context |-> context, question |-> question] >>,
     got |-> << >>]

NotRun == [done |-> FALSE, answer |-> << >>, quotes |-> << >>]
Ran(out) == [done |-> TRUE, answer |-> out.answer, quotes |-> out.quotes]

NoRes == [route |-> "", status |-> 0, success |-> FALSE, error |-> "",
          answer |-> << >>, quotes |-> << >>]

----------------------------------------------------------------------------
(* Initial state: App.tsx:71-82, part_000:17 *)

Init ==
    /\ side \in {"client", "relay"}
    /\ now = 0
    /\ provider = "openai"
    /\ apiKey = Empty
    /\ docs = << >>
    /\ prompt = Empty
    /\ answer = << >>
    /\ quotes = << >>
    /\ loading = FALSE
    /\ error = ""
    /\ preferredQuote = << >>
    /\ inflight = << >>
    /\ corpus = << >>
    /\ relayRes = NoRes
    /\ step = NoStep
    /\ clearedWhileLoading = FALSE
    /\ fullText = << >>
    /\ clientOut = NotRun
    /\ relayOut = NotRun
    /\ againOut = NotRun

(* The clock advances *)
Tick ==
    /\ now < MaxClock
    /\ now' = now + 1
    /\ step' = NoStep
    /\ UNCHANGED clearedWhileLoading
    /\ UNCHANGED <<side, clientVars, relayVars, parseVars>>

----------------------------------------------------------------------------
(* Client: field edits, App.tsx:156, 165, 217 *)

setProvider(p) ==
    /\ side = "client"
    /\ provider' = p
    /\ step' = NoStep
    /\ UNCHANGED clearedWhileLoading
    /\ UNCHANGED <<side, now, apiKey, docs, prompt, answer, quotes, loading, error,
                   preferredQuote, inflight, relayVars, parseVars>>

setApiKey(v) ==
    /\ side = "client"
    /\ apiKey' = v
    /\ step' = NoStep
    /\ UNCHANGED clearedWhileLoading
    /\ UNCHANGED <<side, now, provider, docs, prompt, answer, quotes, loading,
                   error, preferredQuote, inflight, relayVars, parseVars>>

setPrompt(v) ==
    /\ side = "client"
    /\ prompt' = v
    /\ step' = NoStep
    /\ UNCHANGED clearedWhileLoading
    /\ UNCHANGED <<side, now, provider, apiKey, docs, answer, quotes, loading,
                   error, preferredQuote, inflight, relayVars, parseVars>>

----------------------------------------------------------------------------
(* Client: Document Store *)

AddRejectsOnlyEmpty(f) == f.text = Empty

(* App.tsx:85 and the Add button's disabled attribute, App.tsx:183 *)
AddRejects(f) == Trim(f.text) = Empty

(* App.tsx:86-92 *)
NewDoc(f) ==
    [id |-> now,
     name |-> IF Trim(f.name) = Empty THEN DefaultName ELSE Trim(f.name),
     size |-> StrLen(f.text),
     uploadedAt |-> now,
     text |-> f.text]

(* App.tsx:93 *)
WithDoc(prev, doc) == Append(prev, doc)

(* A click on Add while the text is blank: nothing runs *)
addTextRejected(f) ==
    /\ side = "client"
    /\ AddRejects(f)
    /\ step' = Rejected("add")
    /\ UNCHANGED clearedWhileLoading
    /\ UNCHANGED <<side, now, clientVars, relayVars, parseVars>>

(* App.tsx:84-96 *)
addText(f) ==
    /\ side = "client"
    /\ ~AddRejects(f)
    /\ Len(docs) < MaxDocs
    /\ docs' = WithDoc(docs, NewDoc(f))
    /\ step' = NoStep
    /\ UNCHANGED clearedWhileLoading
    /\ UNCHANGED <<side, now, provider, apiKey, prompt, answer, quotes, loading,
                   error, preferredQuote, inflight, relayVars, parseVars>>

(* App.tsx:200 *)
WithoutDoc(prev, id) == SelectSeq(prev, LAMBDA x : x.id # id)

removeDoc(i) ==
    /\ side = "client"
    /\ i \in 1..Len(docs)
    /\ docs' = WithoutDoc(docs, docs[i].id)
    /\ step' = NoStep
    /\ UNCHANGED clearedWhileLoading
    /\ UNCHANGED <<side, now, provider, apiKey, prompt, answer, quotes, loading,
                   error, preferredQuote, inflight, relayVars, parseVars>>

(* App.tsx:98; the button is rendered while there are documents, App.tsx:192 *)
clearAll ==
    /\ side = "client"
    /\ Len(docs) > 0
    /\ docs' = << >>
    /\ answer' = << >>
    /\ quotes' = << >>
    /\ preferredQuote' = << >>
    /\ clearedWhileLoading' = (clearedWhileLoading \/ loading)
    /\ step' = NoStep
    /\ UNCHANGED <<side, now, provider, apiKey, prompt, loading, error, inflight,
                   relayVars, parseVars>>

----------------------------------------------------------------------------
(* Client: run-query *)

(* App.tsx:101 *)
OnQueryRejects ==
    Trim(prompt) = Empty \/ Len(docs) = 0 \/ Trim(apiKey) = Empty

QueryDisabledIgnoringLoading ==
    Trim(prompt) = Empty \/ Len(docs) = 0 \/ Trim(apiKey) = Empty

(* The Run Query button's disabled attribute, App.tsx:220 *)
QueryDisabled ==
    loading \/ Trim(prompt) = Empty \/ Len(docs) = 0 \/ Trim(apiKey) = Empty

ClientContextUncut(ds) ==
    [i \in 1..Len(ds) |-> [name |-> ds[i].name, text |-> ds[i].text]]

(* App.tsx:105 *)
ClientContext(ds) ==
    [i \in 1..Len(ds) |->
        [name |-> ds[i].name, text |-> Slice0(ds[i].text, ClientCap)]]

QueryStartedKeepingResult ==
    [loading |-> TRUE, error |-> "", answer |-> answer, quotes |-> quotes]

(* App.tsx:102 *)
QueryStarted ==
    [loading |-> TRUE, error |-> "", answer |-> << >>, quotes |-> << >>]

(* A click on Run Query while validation fails: nothing runs *)
onQueryRejected ==
    /\ side = "client"
    /\ OnQueryRejects
    /\ step' = Rejected("query")
    /\ UNCHANGED clearedWhileLoading
    /\ UNCHANGED <<side, now, clientVars, relayVars, parseVars>>

(* App.tsx:100-122, up to the await *)
onQuery ==
    /\ side = "client"
    /\ ~QueryDisabled
    /\ ~OnQueryRejects
    /\ loading' = QueryStarted.loading
    /\ error' = QueryStarted.error
    /\ answer' = QueryStarted.answer
    /\ quotes' = QueryStarted.quotes
    /\ inflight' = Append(inflight, provider)
    /\ clearedWhileLoading' = FALSE
    /\ step' = Called("query", Endpoint(provider), CredentialIn(provider), apiKey,
                      ClientContext(docs), prompt)
    /\ UNCHANGED <<side, now, provider, apiKey, docs, prompt, preferredQuote,
                   relayVars, parseVars>>

DropAt(q, i) == SubSeq(q, 1, i - 1) \o SubSeq(q, i + 1, Len(q))

(* App.tsx:122-136, from the await on: the i-th awaited call settles *)
onQuerySettled(i, r) ==
    /\ side = "client"
    /\ i \in 1..Len(inflight)
    /\ LET o == callAI(inflight[i], r)
       IN IF o.threw
          THEN /\ error' = o.msg
               /\ step' = Settled("failed", r)
               /\ UNCHANGED <<answer, quotes>>
          ELSE /\ answer' = ClientParse(o.text).answer
               /\ quotes' = ClientParse(o.text).quotes
               /\ step' = Settled("applied", r)
               /\ UNCHANGED error
    /\ loading' = FALSE
    /\ inflight' = DropAt(inflight, i)
    /\ UNCHANGED clearedWhileLoading
    /\ UNCHANGED <<side, now, provider, apiKey, docs, prompt, preferredQuote,
                   relayVars, parseVars>>

(* App.tsx:247 *)
setPreferredQuote(i) ==
    /\ side = "client"
    /\ i \in 1..Len(quotes)
    /\ preferredQuote' = QuoteId(quotes[i])
    /\ step' = NoStep
    /\ UNCHANGED clearedWhileLoading
    /\ UNCHANGED <<side, now, provider, apiKey, docs, prompt, answer, quotes,
                   loading, error, inflight, relayVars, parseVars>>

----------------------------------------------------------------------------
(* Relay: part_000 *)

OPENAI_API_KEY == Empty

RelayRes(route, status, success, err, ans, qs) ==
    [route |-> route, status |-> status, success |-> success, error |-> err,
     answer |-> ans, quotes |-> qs]

NoDocsAnswer == << "No documents loaded. Please paste your text first." >>

(* part_000:23 *)
relayHealth ==
    /\ side = "relay"
    /\ relayRes' = RelayRes("health", 200, TRUE, "", << >>, << >>)
    /\ step' = NoStep
    /\ UNCHANGED clearedWhileLoading
    /\ UNCHANGED <<side, now, clientVars, corpus, parseVars>>

(* part_000:25-32 *)
relayText(f) ==
    /\ side = "relay"
    /\ IF Trim(f.text) = Empty
       THEN /\ relayRes' = RelayRes("text", 400, FALSE, "No text provided",
                                    << >>, << >>)
            /\ step' = Rejected("text")
            /\ UNCHANGED corpus
       ELSE /\ Len(corpus) < MaxDocs
            /\ corpus' = Append(corpus,
                    [id |-> now,
                     name |-> IF f.name = Empty THEN DefaultName ELSE f.name,
                     text |-> f.text])
            /\ relayRes' = RelayRes("text", 200, TRUE, "", << >>, << >>)
            /\ step' = NoStep
    /\ UNCHANGED clearedWhileLoading
    /\ UNCHANGED <<side, now, clientVars, parseVars>>

(* part_000:34-37 *)
relayDelete ==
    /\ side = "relay"
    /\ corpus' = << >>
    /\ relayRes' = RelayRes("documents", 200, TRUE, "", << >>, << >>)
    /\ step' = NoStep
    /\ UNCHANGED clearedWhileLoading
    /\ UNCHANGED <<side, now, clientVars, parseVars>>

(* part_000:44 *)
RelayContext(ds) ==
    [i \in 1..Len(ds) |->
        [name |-> ds[i].name, text |-> Slice0(ds[i].text, RelayCap)]]

(* part_000:62-78: the fetch and the reply extraction *)
RelayCompletion(r) ==
    IF ~r.reach THEN Threw("fetch failed")
    ELSE IF ~r.json THEN Threw("Unexpected token in JSON")
    ELSE IF ~r.ok THEN Threw(IF r.errmsg # "" THEN r.errmsg ELSE "OpenAI error")
    ELSE IF r.path = "none" THEN Threw("Cannot read properties of undefined")
    ELSE IF r.path = "leaf" THEN Returned(<< >>)
    ELSE Returned(r.text)

(* part_000:39-90 *)
relayQuery(q, r) ==
    /\ side = "relay"
    /\ IF Trim(q) = Empty
       THEN /\ relayRes' = RelayRes("query", 400, FALSE, "Prompt is required",
                                    << >>, << >>)
            /\ step' = Rejected("relayQuery")
       ELSE IF Len(corpus) = 0
       THEN /\ relayRes' = RelayRes("query", 200, TRUE, "", NoDocsAnswer, << >>)
            /\ step' = NoStep
       ELSE /\ step' = Called("relayQuery",
                              "https://api.openai.com/v1/chat/completions",
                              "Authorization: Bearer", OPENAI_API_KEY,
                              RelayContext(corpus), q)
            /\ LET o == RelayCompletion(r)
               IN relayRes' =
                    IF o.threw
                    THEN RelayRes("query", 500, FALSE, o.msg, << >>, << >>)
                    ELSE RelayRes("query", 200, TRUE, "",
                                  RelayParse(o.text).answer,
                                  RelayParse(o.text).quotes)
    /\ UNCHANGED clearedWhileLoading
    /\ UNCHANGED <<side, now, clientVars, corpus, parseVars>>

----------------------------------------------------------------------------
(* The session: either program, any order of user actions and settlements *)

Next ==
    \/ Tick
    \/ \E p \in Providers : setProvider(p)
    \/ \E v \in KeyInputs : setApiKey(v)
    \/ \E v \in PromptInputs : setPrompt(v)
    \/ \E f \in AddForms : addTextRejected(f)
    \/ \E f \in AddForms : addText(f)
    \/ \E i \in 1..MaxDocs : removeDoc(i)
    \/ clearAll
    \/ onQueryRejected
    \/ onQuery
    \/ \E i \in 1..Len(inflight), r \in Responses : onQuerySettled(i, r)
    \/ \E i \in 1..MaxQuotes : setPreferredQuote(i)
    \/ relayHealth
    \/ \E f \in RelayTextBodies : relayText(f)
    \/ relayDelete
    \/ \E q \in PromptInputs, r \in Responses : relayQuery(q, r)

Spec == Init /\ [][Next]_vars

----------------------------------------------------------------------------
(* The parsers on their own: every reply text of a bounded family *)

Prefixes ==
    { << >>,
      << "Answer" >>,
      << " ", "Answer", "\n" >>,
      << "Answer", " ", MARK, " ", "more", " " >> }

Heads ==
    { << "{", DQ, "quotes", DQ, ":", "[" >>,
      << "{", " ", DQ, "quotes", DQ, ":", " ", "[" >>,
      << "{", DQ, "n", DQ, ":", "1", ",", DQ, "quotes", DQ, ":", "[" >> }

Elems ==
    { Obj("q1"), Obj("q2"), << "1" >>,
      << "{", DQ, "tags", DQ, ":", "[", "]", "}" >> }

ElemLists == UNION { [1..n -> Elems] : n \in 0..MaxQuotes }

Tails ==
    { << "]", "}" >>,
      << "]", " ", "}" >>,
      << "]" >>,
      << >>,
      << "]", "}", " ", "Thanks" >>,
      << "]", ",", DQ, "n", DQ, ":", "1", "}" >> }

Strays == { << >>, << "none" >>, << "{", "oops", "}" >> }

ReplyTexts ==
    { p \o << MARK >> \o h \o JoinComma(e) \o t :
        p \in Prefixes, h \in Heads, e \in ElemLists, t \in Tails }
    \cup { p \o << MARK >> \o x : p \in Prefixes, x \in Strays }
    \cup Prefixes

ParseInit ==
    /\ side = "parser"
    /\ now = 0
    /\ provider = "openai"
    /\ apiKey = Empty
    /\ docs = << >>
    /\ prompt = Empty
    /\ answer = << >>
    /\ quotes = << >>
    /\ loading = FALSE
    /\ error = ""
    /\ preferredQuote = << >>
    /\ inflight = << >>
    /\ corpus = << >>
    /\ relayRes = NoRes
    /\ step = NoStep
    /\ clearedWhileLoading = FALSE
    /\ fullText \in ReplyTexts
    /\ clientOut = NotRun
    /\ relayOut = NotRun
    /\ againOut = NotRun

(* App.tsx:124-133 applied to fullText *)
parseClient ==
    /\ ~clientOut.done
    /\ clientOut' = Ran(ClientParse(fullText))
    /\ UNCHANGED clearedWhileLoading
    /\ UNCHANGED <<side, now, clientVars, relayVars, step, fullText, relayOut,
                   againOut>>

(* part_000:78-84 applied to fullText *)
parseRelay ==
    /\ ~relayOut.done
    /\ relayOut' = Ran(RelayParse(fullText))
    /\ UNCHANGED clearedWhileLoading
    /\ UNCHANGED <<side, now, clientVars, relayVars, step, fullText, clientOut,
                   againOut>>

(* App.tsx:124-133 applied to the answer it produced *)
parseAgain ==
    /\ clientOut.done
    /\ ~againOut.done
    /\ againOut' = Ran(ClientParse(clientOut.answer))
    /\ UNCHANGED clearedWhileLoading
    /\ UNCHANGED <<side, now, clientVars, relayVars, step, fullText, clientOut,
                   relayOut>>

ParseNext == parseClient \/ parseRelay \/ parseAgain

ParseSpec == ParseInit /\ [][ParseNext]_vars

----------------------------------------------------------------------------
(* Properties *)

Min(a, b) == IF a <= b THEN a ELSE b

(* a is the text of the first StrLen(a) characters of b *)
RECURSIVE PrefixRuns(_, _)
PrefixRuns(a, b) ==
    IF a = << >> THEN TRUE
    ELSE IF b = << >> THEN FALSE
    ELSE /\ Head(a).c = Head(b).c
         /\ \/ Head(a).n = Head(b).n /\ PrefixRuns(Tail(a), Tail(b))
            \/ Head(a).n < Head(b).n /\ Tail(a) = << >>

(* a keeps elements of b, in b's order *)
RECURSIVE IsSubseq(_, _)
IsSubseq(a, b) ==
    IF a = << >> THEN TRUE
    ELSE IF b = << >> THEN FALSE
    ELSE IF Head(a) = Head(b) THEN IsSubseq(Tail(a), Tail(b))
    ELSE IsSubseq(a, Tail(b))

(* C1: in the client at most one provider call is awaited at any time, and  *)
(* loading is true exactly while one is, whatever was edited, added,        *)
(* removed or cleared in between; so results are applied in issue order.    *)
C1_OneQueryInFlight ==
    /\ Len(inflight) <= 1
    /\ loading <=> Len(inflight) = 1

(* A query is awaited and the provider was switched meanwhile. *)
C1_Witness ==
    /\ Len(inflight) = 1
    /\ inflight[1] # provider
    /\ loading

(* C2: a provider call is only ever issued with a non-blank prompt, at      *)
(* least one document in the context and a non-blank credential.            *)
C2_NoCallWithoutInputs ==
    step.kind = "call" =>
        /\ Trim(step.call[1].question) # Empty
        /\ Len(step.call[1].context) > 0
        /\ Trim(step.call[1].cred) # Empty

(* The part of C2 that holds: the client's calls, and the relay's as far as *)
(* prompt and documents go.                                                 *)
CallsValidatedExceptRelayCredential ==
    step.kind = "call" =>
        /\ Trim(step.call[1].question) # Empty
        /\ Len(step.call[1].context) > 0
        /\ side = "client" => Trim(step.call[1].cred) # Empty

(* The awaited call came back with this response *)
SettledWith(r) == step.kind \in {"failed", "applied"} /\ step.got = << r >>

(* The response carries no reply text where the provider's format puts it *)
EnvelopeMalformed(r) == r.path # "full"

C4_ValidTrailerDecoded ==
    clientOut.done =>
        \A m \in 1..Len(fullText) :
            LET v == JSONparse(SubSeq(fullText, m + 1, Len(fullText)), "quotes")
            IN (fullText[m] = MARK /\ v.ok /\ v.kind = "obj" /\ v.qkind = "arr")
                => /\ clientOut.answer = TrimText(SubSeq(fullText, 1, m - 1))
                   /\ clientOut.quotes = v.qitems

BeforeMark(text) ==
    LET m == FirstMatch(text, << MARK >>, 1)
    IN IF m = 0 THEN text ELSE SubSeq(text, 1, m - 1)

AfterMark(text) ==
    SubSeq(text, FirstMatch(text, << MARK >>, 1) + 1, Len(text))

HasMark(text) == FirstMatch(text, << MARK >>, 1) # 0

(* Some marker is directly followed by a complete JSON object that starts   *)
(* {"quotes":[ -- whatever text comes after that object.                    *)
ObjectAfterSomeMarker(text) ==
    \E m \in 1..Len(text) : \E e \in m..Len(text) :
        /\ MatchAt(text, m, HeadPat)
        /\ JSONparse(SubSeq(text, m + 1, e), "quotes").ok

(* C5 as stated: with the marker absent, or followed by text that is not    *)
(* valid JSON, quotes are empty, the answer is the trimmed text before the  *)
(* first marker, and parsing that answer again changes nothing.             *)
C5_InvalidTrailerGivesNoQuotes ==
    (clientOut.done /\ (~HasMark(fullText)
                        \/ ~JSONparse(AfterMark(fullText), "quotes").ok))
        => /\ clientOut.quotes = << >>
           /\ clientOut.answer = TrimText(BeforeMark(fullText))
           /\ againOut.done => /\ againOut.answer = clientOut.answer
                               /\ againOut.quotes = << >>

(* C5 amended: for every reply the answer is the trimmed text before the    *)
(* first marker and parsing it again changes nothing; quotes are empty when *)
(* no marker is directly followed by a complete JSON object starting        *)
(* {"quotes":[ (marker absent, trailer truncated or malformed).             *)
C5_TolerantParse ==
    clientOut.done =>
        /\ clientOut.answer = TrimText(BeforeMark(fullText))
        /\ ~HasMark(clientOut.answer)
        /\ againOut.done => /\ againOut.answer = clientOut.answer
                            /\ againOut.quotes = << >>
        /\ ~ObjectAfterSomeMarker(fullText) => clientOut.quotes = << >>

(* A truncated trailer was parsed, and the answer parsed again. *)
C5_Witness ==
    /\ clientOut.done
    /\ againOut.done
    /\ FirstMatch(fullText, HeadPat, 1) # 0
    /\ ~ObjectAfterSomeMarker(fullText)
    /\ clientOut.answer # << >>
    /\ clientOut.quotes = << >>

BlocksMatch(ctx, ds, cap) ==
    /\ Len(ctx) = Len(ds)
    /\ \A i \in 1..Len(ds) :
        /\ ctx[i].name = ds[i].name
        /\ StrLen(ctx[i].text) = Min(StrLen(ds[i].text), cap)
        /\ PrefixRuns(ctx[i].text, ds[i].text)

ContextMatchesStore ==
    step.kind = "call" =>
        IF side = "client"
        THEN BlocksMatch(step.call[1].context, docs, ClientCap)
        ELSE BlocksMatch(step.call[1].context, corpus, RelayCap)

OrderKept(old, new) ==
    IF Len(new) > Len(old)
    THEN Len(new) = Len(old) + 1 /\ SubSeq(new, 1, Len(old)) = old
    ELSE IsSubseq(new, old)

(* C6: every step keeps the stored documents in insertion order (an add     *)
(* goes last, a removal keeps the others' order), in the client and in the  *)
(* relay, and the context of every call issued has one block per stored     *)
(* document, in store order, with the document's name and the first         *)
(* min(length, cap) characters of its text (cap 8000 client, 15000 relay).  *)
C6_ContextFollowsStore ==
    [][ /\ OrderKept(docs, docs')
        /\ OrderKept(corpus, corpus')
        /\ ContextMatchesStore' ]_vars

(* A client call went out with two blocks, the second one cut at the cap. *)
C6_Witness ==
    /\ step.kind = "call"
    /\ side = "client"
    /\ Len(step.call[1].context) = 2
    /\ step.call[1].context[1].name # step.call[1].context[2].name
    /\ StrLen(docs[2].text) > ClientCap
    /\ StrLen(step.call[1].context[2].text) = ClientCap

(* C7: the ids of the stored documents are pairwise distinct. *)
C7_IdsUnique ==
    \A i, j \in 1..Len(docs) : i # j => docs[i].id # docs[j].id

C9_ParsersAgree ==
    (clientOut.done /\ relayOut.done) =>
        /\ relayOut.answer = clientOut.answer
        /\ relayOut.quotes = clientOut.quotes

(* C10: the preferred-quote selection is empty or the id of a quote         *)
(* candidate currently held.                                                *)
C10_PreferredIsCurrent ==
    \/ preferredQuote = << >>
    \/ \E i \in 1..Len(quotes) : QuoteId(quotes[i]) = preferredQuote

(* C11: once Clear all has been clicked while a query was awaited, answer   *)
(* and quotes stay empty, also after that query settles, until Run Query is *)
(* clicked again.                                                           *)
C11_ClearedStaysEmpty ==
    clearedWhileLoading => /\ answer = << >>
                           /\ quotes = << >>

====
